---- MODULE Spec2Model ----
(***************************************************************************)
(* Model of the pdf_beautifier package: PDFBeautifierAgent (agent.py) and  *)
(* PDFGenerator (pdf_generator.py).                                        *)
(*                                                                         *)
(* Text.  A Python str is a sequence of atoms whose concatenation is the   *)
(* string.  Text the caller controls (markdown, CSS templates) is made of  *)
(* one-character atoms; a literal of the program that no input can spell   *)
(* ("Document", "PDF Beautifier Agent", an HTML tag) is one atom.  The     *)
(* atoms of the documents the generator writes are the characters of the   *)
(* source; a character outside ASCII is written as the atoms of its UTF-8  *)
(* bytes ("\\xeb").  Messages in Korean, which reach no file, are given in  *)
(* English.                                                                *)
(* Optional values: <<>> is None, <<v>> is the value v.                    *)
(***************************************************************************)
EXTENDS Integers, Sequences, FiniteSets, TLC

VARIABLES
    mdIn,      \* SpecTitle: the markdown text given to _extract_title
    extracted, \* SpecTitle: <<>> before the call, <<t>> after it returned t
    tdir,      \* template directory: file name -> content of the CSS file
    cssIn,     \* SpecCss: [style, theme] asked of _generate_css
    cssOut,    \* SpecCss: <<>> before, then <<the outcome>>
    files,     \* output files: path -> <<>> (absent) or <<content>>
    dirs,      \* output directories that exist
    cmap,      \* the metadata dict the caller holds and may pass by reference
    call,      \* the last public call: its operation and arguments
    res,       \* what the last public call gave back to its caller
    trace,     \* what the last call handed to the assembler and the engine,
               \* and the stamp it read
    ncalls,    \* SpecMeta: the number of calls made so far
    clock,     \* the time: the microseconds that have passed
    zone,      \* the local time: summer time, or standard time after it
    asmIn,     \* SpecAsm: the document, metadata and TOC fragment to inject into
    asmOut,    \* SpecAsm: <<>> before, then <<[n, doc]>> after n applications
    race,      \* SpecRace: the two preview_html invocations in progress
    graph,     \* SpecGraph: the run of the LangGraph pipeline of test/test.py
    study      \* SpecStudy: one pending question, the agent's answers, the outcome

vars == <<mdIn, extracted, tdir, cssIn, cssOut, files, dirs, cmap, call, res, trace,
          ncalls, clock, zone, asmIn, asmOut, race, graph, study>>

\* the variables the calls of the pdf_beautifier package leave alone
asmVars == <<asmIn, asmOut>>
otherVars == <<race, graph, study>>

(***************************************************************************)
(* Bounds                                                                  *)
(***************************************************************************)
MaxMdLen == 5
MaxCssTokens == 3
MaxCalls == 2

(***************************************************************************)
(* Python str primitives                                                   *)
(***************************************************************************)
Whitespace == {" ", "\n"}

RECURSIVE LStripChars(_, _)
\* str.lstrip(chars): drop the longest prefix made of characters of the set
LStripChars(s, chars) ==
    IF s = <<>> \/ Head(s) \notin chars THEN s
    ELSE LStripChars(Tail(s), chars)

RECURSIVE RStripChars(_, _)
RStripChars(s, chars) ==
    IF s = <<>> \/ s[Len(s)] \notin chars THEN s
    ELSE RStripChars(SubSeq(s, 1, Len(s) - 1), chars)

\* str.strip()
Strip(s) == RStripChars(LStripChars(s, Whitespace), Whitespace)

\* str.startswith(prefix)
StartsWith(s, prefix) ==
    Len(s) >= Len(prefix) /\ SubSeq(s, 1, Len(prefix)) = prefix

RECURSIVE SplitAcc(_, _, _)
SplitAcc(s, sep, cur) ==
    IF s = <<>> THEN <<cur>>
    ELSE IF Head(s) = sep THEN <<cur>> \o SplitAcc(Tail(s), sep, <<>>)
    ELSE SplitAcc(Tail(s), sep, Append(cur, Head(s)))

\* str.split(sep) for a one-character separator
Split(s, sep) == SplitAcc(s, sep, <<>>)

\* s.find(old): the first index where old occurs in s, 0 when it does not
Find(s, old) ==
    LET hits == {i \in 1..(Len(s) - Len(old) + 1) :
                    s[i] = old[1] /\ SubSeq(s, i, i + Len(old) - 1) = old}
    IN  IF hits = {} THEN 0 ELSE CHOOSE i \in hits : \A j \in hits : i <= j

RECURSIVE Replace(_, _, _)
\* str.replace(old, new) for a non-empty old: every non-overlapping
\* occurrence, left to right
Replace(s, old, new) ==
    LET i == Find(s, old) IN
    IF i = 0 THEN s
    ELSE SubSeq(s, 1, i - 1) \o new
             \o Replace(SubSeq(s, i + Len(old), Len(s)), old, new)

\* old in s
Contains(s, old) == Find(s, old) # 0

RECURSIVE Count(_, _)
\* s.count(old): the non-overlapping occurrences
Count(s, old) ==
    LET i == Find(s, old) IN
    IF i = 0 THEN 0 ELSE 1 + Count(SubSeq(s, i + Len(old), Len(s)), old)

RECURSIVE Concat(_)
\* "".join(parts)
Concat(parts) == IF parts = <<>> THEN <<>> ELSE Head(parts) \o Concat(Tail(parts))

\* all sequences over S of length at most n
SeqsUpTo(S, n) == UNION {[1..k -> S] : k \in 0..n}

(***************************************************************************)
(* PDFBeautifierAgent._extract_title                                       *)
(***************************************************************************)
DocumentLit == <<"Document">>
HeadingPrefix == <<"#", " ">>

RECURSIVE FirstHeading(_)
\* the for loop of _extract_title over the split lines
FirstHeading(lines) ==
    IF lines = <<>> THEN DocumentLit
    ELSE LET line == Strip(Head(lines)) IN
         IF StartsWith(line, HeadingPrefix)
         THEN Strip(LStripChars(line, {"#", " "}))
         ELSE FirstHeading(Tail(lines))

_extract_title(markdown_content) ==
    FirstHeading(Split(Strip(markdown_content), "\n"))

(***************************************************************************)
(* Exceptions.  An exception is the chain of its messages, the raised one  *)
(* first and its __cause__ chain after it; str(e) is the first message.    *)
(* A call that may raise yields [ok, val, exc].                            *)
(***************************************************************************)
Returned(v) == [ok |-> TRUE, val |-> v, exc |-> <<>>]
Raised(chain) == [ok |-> FALSE, val |-> <<>>, exc |-> chain]
StrOf(chain) == Head(chain)
\* Wrap without "from e": the new exception has no __cause__
WrapNoCause(prefix, chain) == <<prefix \o StrOf(chain)>>

\* raise Exception(f"{prefix}{str(e)}") from e
Wrap(prefix, chain) == <<prefix \o StrOf(chain)>> \o chain

(***************************************************************************)
(* PDFGenerator.COLOR_THEMES and the theme lookup of _generate_css         *)
(***************************************************************************)
COLOR_THEMES == [
    blue |-> [
        primary |-> <<"#", "2", "5", "6", "3", "e", "b">>,
        secondary |-> <<"#", "1", "e", "4", "0", "a", "f">>,
        tertiary |-> <<"#", "1", "e", "3", "a", "8", "a">>,
        accent |-> <<"#", "3", "b", "8", "2", "f", "6">>,
        light |-> <<"#", "d", "b", "e", "a", "f", "e">>
    ],
    green |-> [
        primary |-> <<"#", "0", "5", "9", "6", "6", "9">>,
        secondary |-> <<"#", "0", "4", "7", "8", "5", "7">>,
        tertiary |-> <<"#", "0", "6", "5", "f", "4", "6">>,
        accent |-> <<"#", "1", "0", "b", "9", "8", "1">>,
        light |-> <<"#", "d", "1", "f", "a", "e", "5">>
    ],
    purple |-> [
        primary |-> <<"#", "7", "c", "3", "a", "e", "d">>,
        secondary |-> <<"#", "6", "d", "2", "8", "d", "9">>,
        tertiary |-> <<"#", "5", "b", "2", "1", "b", "6">>,
        accent |-> <<"#", "8", "b", "5", "c", "f", "6">>,
        light |-> <<"#", "e", "d", "e", "9", "f", "e">>
    ],
    red |-> [
        primary |-> <<"#", "d", "c", "2", "6", "2", "6">>,
        secondary |-> <<"#", "b", "9", "1", "c", "1", "c">>,
        tertiary |-> <<"#", "9", "9", "1", "b", "1", "b">>,
        accent |-> <<"#", "e", "f", "4", "4", "4", "4">>,
        light |-> <<"#", "f", "e", "e", "2", "e", "2">>
    ],
    orange |-> [
        primary |-> <<"#", "e", "a", "5", "8", "0", "c">>,
        secondary |-> <<"#", "c", "2", "4", "1", "0", "c">>,
        tertiary |-> <<"#", "9", "a", "3", "4", "1", "2">>,
        accent |-> <<"#", "f", "9", "7", "3", "1", "6">>,
        light |-> <<"#", "f", "e", "d", "7", "a", "a">>
    ]
]

Roles == {"primary", "secondary", "tertiary", "accent", "light"}
RoleOrder == <<"primary", "secondary", "tertiary", "accent", "light">>

\* the literals the five replace() calls look for, by the role that replaces them
Placeholder == [
    primary |-> <<"#", "2", "5", "6", "3", "e", "b">>,
    secondary |-> <<"#", "1", "e", "4", "0", "a", "f">>,
    tertiary |-> <<"#", "1", "e", "3", "a", "8", "a">>,
    accent |-> <<"#", "3", "b", "8", "2", "f", "6">>,
    light |-> <<"#", "d", "b", "e", "a", "f", "e">>
]

\* ResolveTheme with another theme as the default
ResolveThemeWrongDefault(color_theme) ==
    IF color_theme \in DOMAIN COLOR_THEMES THEN COLOR_THEMES[color_theme]
    ELSE COLOR_THEMES["green"]

\* self.COLOR_THEMES.get(color_theme, self.COLOR_THEMES["blue"])
ResolveTheme(color_theme) ==
    IF color_theme \in DOMAIN COLOR_THEMES THEN COLOR_THEMES[color_theme]
    ELSE COLOR_THEMES["blue"]

RECURSIVE ReplaceFrom(_, _, _)
\* the replace() calls number i..5 of _generate_css, one after the other
ReplaceFrom(css, theme, i) ==
    IF i > Len(RoleOrder) THEN css
    ELSE ReplaceFrom(Replace(css, Placeholder[RoleOrder[i]], theme[RoleOrder[i]]),
                     theme, i + 1)

\* ApplyTheme with the first replace() call left out
ApplyThemeSkipFirst(css, theme) == ReplaceFrom(css, theme, 2)

ApplyTheme(css, theme) == ReplaceFrom(css, theme, 1)

(***************************************************************************)
(* The template directory and PDFGenerator._generate_css                   *)
(***************************************************************************)
FallbackStyle == "business_report"

\* self.template_dir / f"{style}.css", as text
CssPath(style) == <<"templates/", style, ".css">>

\* open(css_path) of a file that is not there
FileNotFound(path) ==
    <<(<<"[Errno 2] No such file or directory: '">> \o path \o <<"'">>)>>

CssLoadPrefix == <<"CSS load failed: ">>

\* CssStyleUsed without the fallback
CssStyleUsedNoFallback(dir, style) == style

\* the style whose file is opened: the asked one, else the one fallback
CssStyleUsed(dir, style) ==
    IF style \in DOMAIN dir THEN style ELSE FallbackStyle

\* _generate_css that answers a missing file with empty CSS
_generate_css_silent(dir, style, color_theme) ==
    LET used == CssStyleUsed(dir, style) IN
    IF used \notin DOMAIN dir THEN Returned(<<>>)
    ELSE Returned(ApplyTheme(dir[used], ResolveTheme(color_theme)))

_generate_css(dir, style, color_theme) ==
    LET used == CssStyleUsed(dir, style) IN
    IF used \notin DOMAIN dir
    THEN Raised(Wrap(CssLoadPrefix, FileNotFound(CssPath(used))))
    ELSE Returned(ApplyTheme(dir[used], ResolveTheme(color_theme)))

(***************************************************************************)
(* dict primitives                                                         *)
(***************************************************************************)
EmptyDict == [k \in {} |-> <<>>]
\* d.get(k, default)
Get(d, k, default) == IF k \in DOMAIN d THEN d[k] ELSE default
\* d[k] = v
SetItem(d, k, v) == [x \in DOMAIN d \cup {k} |-> IF x = k THEN v ELSE d[x]]
\* d.setdefault(k, v)
SetDefault(d, k, v) == IF k \in DOMAIN d THEN d ELSE SetItem(d, k, v)
\* bool(x) of an Optional[str]: None and "" are false
Truthy(opt) == opt # <<>> /\ opt[1] # <<>>

(***************************************************************************)
(* markdown.Markdown(...).convert and .toc: the third-party converter, as  *)
(* far as the pipeline reads its output.  A line "# t" is a level-1        *)
(* heading, "## t" a level-2 heading, any other non-blank line a           *)
(* paragraph; the toc lists the level-2 headings.                          *)
(***************************************************************************)
RECURSIVE ConvertLines(_)
ConvertLines(lines) ==
    IF lines = <<>> THEN <<>>
    ELSE LET line == Head(lines) IN
         (IF StartsWith(line, <<"#", " ">>)
          THEN <<"<h1>">> \o Strip(SubSeq(line, 3, Len(line))) \o <<"</h1>">>
          ELSE IF StartsWith(line, <<"#", "#", " ">>)
          THEN <<"<h2>">> \o Strip(SubSeq(line, 4, Len(line))) \o <<"</h2>">>
          ELSE IF Strip(line) = <<>> THEN <<>>
          ELSE <<"<p>">> \o line \o <<"</p>">>)
         \o ConvertLines(Tail(lines))

MdConvert(markdown_content) == ConvertLines(Split(markdown_content, "\n"))

\* raw HTML tags a markdown text can spell
RawTags == {"<body>", "</head>", "<title>", "</title>"}
IsText(c) == c \notin RawTags
\* the toc lists the text of a heading, its tags stripped
StripTags(s) == SelectSeq(s, IsText)

RECURSIVE TocEntries(_)
TocEntries(lines) ==
    IF lines = <<>> THEN <<>>
    ELSE LET line == Head(lines) IN
         (IF StartsWith(line, <<"#", "#", " ">>)
          THEN <<"<li>">> \o StripTags(Strip(SubSeq(line, 4, Len(line))))
                   \o <<"</li>">>
          ELSE <<>>)
         \o TocEntries(Tail(lines))

MdToc(markdown_content) ==
    <<"<div class=toc>", "<ul>">>
        \o TocEntries(Split(markdown_content, "\n")) \o <<"</ul>", "</div>">>

(***************************************************************************)
(* PDFGenerator._markdown_to_html                                          *)
(***************************************************************************)
TitleMarker == <<"<title>", "Document", "</title>">>
HeadClose == <<"</head>">>
BodyOpen == <<"<body>">>

\* the f-string html_template around body_html
Skeleton(body_html) ==
    <<"<!DOCTYPE html>", "\n", "<html lang=\"ko\">", "\n", "<head>", "\n",
      "    ", "<meta charset=\"UTF-8\">", "\n",
      "    ", "<meta name=\"viewport\" content=\"width=device-width, initial-scale=1.0\">",
      "\n", "    ">>
        \o TitleMarker \o <<"\n">> \o HeadClose \o <<"\n">> \o BodyOpen \o <<"\n">>
        \o body_html \o <<"\n", "</body>", "\n", "</html>">>

\* the original failure a stage raises when the environment makes it fail
FaultExc(stage) == <<<<stage, " error">>>>

MdFailPrefix == <<"markdown conversion failed: ">>

\* _markdown_to_html that reads md.toc whatever include_toc says
_markdown_to_html_always_toc(markdown_content, include_toc, fault) ==
    IF fault = "markdown"
    THEN Raised(Wrap(MdFailPrefix, FaultExc("markdown")))
    ELSE Returned([html |-> Skeleton(MdConvert(markdown_content)),
                   toc |-> MdToc(markdown_content)])

\* fault = "markdown": md.convert raises
_markdown_to_html(markdown_content, include_toc, fault) ==
    IF fault = "markdown"
    THEN Raised(Wrap(MdFailPrefix, FaultExc("markdown")))
    ELSE Returned([html |-> Skeleton(MdConvert(markdown_content)),
                   toc |-> IF include_toc THEN MdToc(markdown_content) ELSE <<>>])

(***************************************************************************)
(* PDFGenerator._add_metadata_to_html                                      *)
(***************************************************************************)
\* the f-string meta_tags; now: the text of datetime.now().isoformat()
MetaTags(metadata, now) ==
    <<"\n", "    ", "<meta name=\"author\" content=\"">>
        \o Get(metadata, "author", <<>>)
        \o <<"\">", "\n", "    ", "<meta name=\"description\" content=\"">>
        \o Get(metadata, "subject", <<>>)
        \o <<"\">", "\n", "    ", "<meta name=\"keywords\" content=\"">>
        \o Get(metadata, "keywords", <<>>)
        \o <<"\">", "\n", "    ",
             "<meta name=\"generator\" content=\"PDF Beautifier Agent\">", "\n",
             "    ", "<meta name=\"created\" content=\"", now, "\">", "\n">>

\* the heading of the TOC block, two Korean characters: their UTF-8 bytes
TocTitle == <<"\\xeb", "\\xaa", "\\xa9", "\\xec", "\\xb0", "\\xa8">>

TocSection(toc_html) ==
    <<"\n", "<div class=\"table-of-contents\">", "\n", "<h2>">> \o TocTitle
        \o <<"</h2>", "\n">>
        \o toc_html
        \o <<"\n", "</div>", "\n", "<div class=\"page-break\"></div>", "\n">>

\* _add_metadata_to_html that puts the TOC block in front of a document in
\* which it finds no <body>
_add_metadata_to_html_toc_first(html_content, metadata, toc_html, now) ==
    LET titled == Replace(html_content, TitleMarker,
                          <<"<title>">> \o Get(metadata, "title", DocumentLit)
                              \o <<"</title>">>)
        tagged == Replace(titled, HeadClose, MetaTags(metadata, now) \o HeadClose)
    IN  IF toc_html = <<>> THEN tagged
        ELSE IF Contains(tagged, BodyOpen)
        THEN Replace(tagged, BodyOpen, BodyOpen \o <<"\n">> \o TocSection(toc_html))
        ELSE TocSection(toc_html) \o tagged

_add_metadata_to_html(html_content, metadata, toc_html, now) ==
    LET titled == Replace(html_content, TitleMarker,
                          <<"<title>">> \o Get(metadata, "title", DocumentLit)
                              \o <<"</title>">>)
        tagged == Replace(titled, HeadClose, MetaTags(metadata, now) \o HeadClose)
    IN  IF toc_html # <<>>
        THEN Replace(tagged, BodyOpen, BodyOpen \o <<"\n">> \o TocSection(toc_html))
        ELSE tagged

(***************************************************************************)
(* Output paths and files.  A path is the text of its components; files    *)
(* maps the absolute paths that exist to what was written there.           *)
(***************************************************************************)
\* Path(output_path).resolve()
Resolve(path) == IF Head(path) = "/" THEN path ELSE <<"/", "cwd/">> \o path
\* output_path.parent
Parent(abs) == SubSeq(abs, 1, Len(abs) - 1)
FileName(path) == <<path[Len(path)]>>
EndsWith(s, suffix) ==
    Len(s) >= Len(suffix) /\ SubSeq(s, Len(s) - Len(suffix) + 1, Len(s)) = suffix

\* WriteFile in append mode: what the path held stays in front
WriteFileAppend(fs, path, file) ==
    IF path \in DOMAIN fs
    THEN SetItem(fs, path, [file EXCEPT !.html = fs[path].html \o @])
    ELSE SetItem(fs, path, file)

\* open(path, "w") and write, html_obj.write_pdf(path): the file is created
\* or truncated and then holds what was written
WriteFile(fs, path, file) == SetItem(fs, path, file)

(***************************************************************************)
(* PDFGenerator.generate_pdf.  a: the arguments [md, path, style, theme,   *)
(* toc, fault]; metadata: <<>> for None, <<d>> for the dict d.  The value  *)
(* is what the call leaves behind: its outcome, the dict it worked on,     *)
(* the files and directories, and the metadata dict as it was when it was  *)
(* handed to the assembler (asm) and to write_pdf (eng).                   *)
(***************************************************************************)
DefaultAuthor == <<"PDF Beautifier Agent">>
DefaultSubject == <<"Generated Report">>
DefaultCreator == <<"LangChain PDF Beautifier">>
Producer == <<"WeasyPrint with LangChain">>
PdfFailPrefix == <<"PDF generation failed: ">>

\* GenDefaults without the author default
GenDefaultsNoAuthor(d) ==
    SetDefault(SetDefault(SetDefault(d,
        "title", DocumentLit), "subject", DefaultSubject), "creator", DefaultCreator)

\* the four setdefault calls of generate_pdf
GenDefaults(d) ==
    SetDefault(SetDefault(SetDefault(SetDefault(d,
        "title", DocumentLit), "author", DefaultAuthor),
        "subject", DefaultSubject), "creator", DefaultCreator)

\* the pdf_metadata argument of write_pdf
PdfMetadata(m) ==
    [title |-> Get(m, "title", <<>>), author |-> Get(m, "author", <<>>),
     subject |-> Get(m, "subject", <<>>), keywords |-> Get(m, "keywords", <<>>),
     creator |-> Get(m, "creator", <<>>), producer |-> Producer]

generate_pdf(dir, fs, ds, a, metadata, now) ==
    LET conv == _markdown_to_html(a.md, a.toc, a.fault)
        css == _generate_css(dir, a.style, a.theme)
        given == IF metadata = <<>> THEN EmptyDict ELSE metadata[1]
        m == GenDefaults(given)
        html_with_meta == _add_metadata_to_html(conv.val.html, m, conv.val.toc, now)
        abs == Resolve(a.path)
    IN  IF ~conv.ok
        THEN [out |-> Raised(Wrap(PdfFailPrefix, conv.exc)), meta |-> given,
              files |-> fs, dirs |-> ds, asm |-> <<>>, eng |-> <<>>]
        ELSE IF ~css.ok
        THEN [out |-> Raised(Wrap(PdfFailPrefix, css.exc)), meta |-> given,
              files |-> fs, dirs |-> ds, asm |-> <<>>, eng |-> <<>>]
        ELSE IF a.fault = "mkdir"
        THEN [out |-> Raised(Wrap(PdfFailPrefix, FaultExc("mkdir"))), meta |-> m,
              files |-> fs, dirs |-> ds, asm |-> <<m>>, eng |-> <<>>]
        ELSE IF a.fault = "engine"
        THEN [out |-> Raised(Wrap(PdfFailPrefix, FaultExc("engine"))), meta |-> m,
              files |-> fs, dirs |-> ds \cup {Parent(abs)},
              asm |-> <<m>>, eng |-> <<m>>]
        ELSE [out |-> Returned(abs), meta |-> m,
              files |-> WriteFile(fs, abs, [kind |-> "pdf", html |-> html_with_meta,
                                            css |-> css.val,
                                            meta |-> PdfMetadata(m)]),
              dirs |-> ds \cup {Parent(abs)},
              asm |-> <<m>>, eng |-> <<m>>]

(***************************************************************************)
(* PDFGenerator.preview_html                                               *)
(***************************************************************************)
\* the bytes of an atom in the file (encoding="utf-8"): one for a byte
\* written "\\x..", one for each character of any other atom
Utf8Len(c) == IF Len(c) = 4 /\ SubSeq(c, 1, 2) = "\\x" THEN 1 ELSE Len(c)

RECURSIVE ByteLen(_)
ByteLen(s) == IF s = <<>> THEN 0 ELSE Utf8Len(Head(s)) + ByteLen(Tail(s))

RECURSIVE DropBytes(_, _)
\* what lies behind the first n bytes of s; an atom the n-th byte falls
\* into leaves its remaining characters
DropBytes(s, n) ==
    IF n = 0 \/ s = <<>> THEN s
    ELSE LET w == Utf8Len(Head(s)) IN
         IF n >= w THEN DropBytes(Tail(s), n - w)
         ELSE <<SubSeq(Head(s), n + 1, w)>> \o Tail(s)

RECURSIVE TakeBytes(_, _)
\* the first n bytes of s, all of s when it has fewer; an atom the n-th
\* byte falls into gives its first characters
TakeBytes(s, n) ==
    IF n = 0 \/ s = <<>> THEN <<>>
    ELSE LET w == Utf8Len(Head(s)) IN
         IF n >= w THEN <<Head(s)>> \o TakeBytes(Tail(s), n - w)
         ELSE <<SubSeq(Head(s), 1, n)>>

HtmlFailPrefix == <<"HTML preview generation failed: ">>

PreviewMetadata ==
    [title |-> <<"Preview">>, author |-> DefaultAuthor, subject |-> <<"HTML Preview">>]

InlineCss(html_with_meta, css_content) ==
    Replace(html_with_meta, HeadClose,
            <<"<style>", "\n">> \o css_content \o <<"\n", "</style>", "\n">>
                \o HeadClose)

HtmlFile(text) == [kind |-> "html", html |-> text, css |-> <<>>, meta |-> EmptyDict]

\* gen_preview_html that resolves the path, makes the directory and opens
\* the file before it converts the markdown and loads the CSS
gen_preview_html_open_first(dir, fs, ds, a, now) ==
    LET conv == _markdown_to_html(a.md, a.toc, a.fault)
        css == _generate_css(dir, a.style, a.theme)
        metadata == PreviewMetadata
        html_with_meta ==
            _add_metadata_to_html(conv.val.html, metadata, conv.val.toc, now)
        html_with_css == InlineCss(html_with_meta, css.val)
        abs == Resolve(a.path)
        opened == SetItem(fs, abs, HtmlFile(<<>>))
    IN  IF a.fault = "mkdir"
        THEN [out |-> Raised(Wrap(HtmlFailPrefix, FaultExc("mkdir"))),
              meta |-> EmptyDict, files |-> fs, dirs |-> ds,
              asm |-> <<>>, eng |-> <<>>]
        ELSE IF ~conv.ok
        THEN [out |-> Raised(Wrap(HtmlFailPrefix, conv.exc)), meta |-> EmptyDict,
              files |-> opened, dirs |-> ds \cup {Parent(abs)},
              asm |-> <<>>, eng |-> <<>>]
        ELSE IF ~css.ok
        THEN [out |-> Raised(Wrap(HtmlFailPrefix, css.exc)), meta |-> EmptyDict,
              files |-> opened, dirs |-> ds \cup {Parent(abs)},
              asm |-> <<>>, eng |-> <<>>]
        ELSE IF a.fault = "write"
        THEN [out |-> Raised(Wrap(HtmlFailPrefix, FaultExc("write"))),
              meta |-> metadata,
              files |-> SetItem(fs, abs, HtmlFile(TakeBytes(html_with_css, a.limit))),
              dirs |-> ds \cup {Parent(abs)}, asm |-> <<metadata>>, eng |-> <<>>]
        ELSE [out |-> Returned(abs), meta |-> metadata,
              files |-> WriteFile(fs, abs, HtmlFile(html_with_css)),
              dirs |-> ds \cup {Parent(abs)}, asm |-> <<metadata>>, eng |-> <<>>]

gen_preview_html(dir, fs, ds, a, now) ==
    LET conv == _markdown_to_html(a.md, a.toc, a.fault)
        css == _generate_css(dir, a.style, a.theme)
        metadata == PreviewMetadata
        html_with_meta ==
            _add_metadata_to_html(conv.val.html, metadata, conv.val.toc, now)
        html_with_css == InlineCss(html_with_meta, css.val)
        abs == Resolve(a.path)
    IN  IF ~conv.ok
        THEN [out |-> Raised(Wrap(HtmlFailPrefix, conv.exc)), meta |-> EmptyDict,
              files |-> fs, dirs |-> ds, asm |-> <<>>, eng |-> <<>>]
        ELSE IF ~css.ok
        THEN [out |-> Raised(Wrap(HtmlFailPrefix, css.exc)), meta |-> EmptyDict,
              files |-> fs, dirs |-> ds, asm |-> <<>>, eng |-> <<>>]
        ELSE IF a.fault = "mkdir"
        THEN [out |-> Raised(Wrap(HtmlFailPrefix, FaultExc("mkdir"))),
              meta |-> metadata, files |-> fs, dirs |-> ds,
              asm |-> <<metadata>>, eng |-> <<>>]
        ELSE IF a.fault = "write"
        \* open(output_path, "w") has truncated the file; f.write or the
        \* close raises when a.limit bytes of the text have reached it
        THEN [out |-> Raised(Wrap(HtmlFailPrefix, FaultExc("write"))),
              meta |-> metadata,
              files |-> SetItem(fs, abs, HtmlFile(TakeBytes(html_with_css, a.limit))),
              dirs |-> ds \cup {Parent(abs)}, asm |-> <<metadata>>, eng |-> <<>>]
        ELSE [out |-> Returned(abs), meta |-> metadata,
              files |-> WriteFile(fs, abs, HtmlFile(html_with_css)),
              dirs |-> ds \cup {Parent(abs)}, asm |-> <<metadata>>, eng |-> <<>>]

(***************************************************************************)
(* PDFBeautifierAgent.  What a public call gives its caller:               *)
(*   how = "dict"   the result dict of an agent operation                  *)
(*   how = "return" the path a generator operation returned                *)
(*   how = "raise"  an exception that reached the caller (exc)             *)
(* The agent operations print their progress: a.stdout is the encoding of  *)
(* sys.stdout, which takes the text ("utf-8") or cannot encode the mark    *)
(* each message starts with ("ascii").                                     *)
(***************************************************************************)
AgentPdfErrPrefix == <<"error while generating the PDF: ">>
AgentHtmlErrPrefix == <<"error while generating the HTML: ">>
AgentPdfOkPrefix == <<"PDF generated: ">>
AgentHtmlOkPrefix == <<"HTML preview generated: ">>
DefaultKeywords == <<"report, analysis, business">>
SubjectSuffix == <<" - Generated Report">>

ResultOk(path, markdown, metadata, message) ==
    [how |-> "dict", success |-> TRUE, path |-> <<path>>, markdown |-> markdown,
     metadata |-> metadata, message |-> message, error |-> <<>>, exc |-> <<>>]

\* the dict the except branch of the three agent operations returns
ResultFailed(prefix, chain) ==
    [how |-> "dict", success |-> FALSE, path |-> <<>>, markdown |-> <<>>,
     metadata |-> <<>>, message |-> prefix \o StrOf(chain),
     error |-> <<StrOf(chain)>>, exc |-> <<>>]

\* a generator operation called by the caller itself
Direct(out) ==
    [how |-> IF out.ok THEN "return" ELSE "raise", success |-> out.ok,
     path |-> IF out.ok THEN <<out.val>> ELSE <<>>, markdown |-> <<>>,
     metadata |-> <<>>, message |-> <<>>, error |-> <<>>, exc |-> out.exc]

\* the marks the printed messages start with
Memo == "\\U0001f4dd"
Art == "\\U0001f3a8"
Cross == "\\u274c"

\* print(text) on a stdout that cannot encode the first character of text
PrintExc(mark) == <<<<"can't encode character ", mark>>>>

\* print on sys.stdout
CanPrint(a) == a.stdout = "utf-8"

\* the first print of the try block raises, the except branch catches it,
\* and its own print raises again: that exception reaches the caller, with
\* the first one as its context
PrintEscapes(first) == Direct(Raised(PrintExc(Cross) \o PrintExc(first)))

\* self.analyzer.analyze_and_structure: the LLM chain; a.md is the markdown
\* it answers with, fault = "analyzer" makes the chain raise
analyze_and_structure(a) ==
    IF a.fault = "analyzer" THEN Raised(FaultExc("analyzer")) ELSE Returned(a.md)

\* step 2 of beautify: the metadata dict before generate_pdf is called
BeautifyMetadata(given, title, author, markdown_content) ==
    LET m1 == IF Truthy(title) THEN SetItem(given, "title", title[1])
              ELSE SetDefault(given, "title", _extract_title(markdown_content))
        m2 == SetDefault(m1, "author",
                         IF Truthy(author) THEN author[1] ELSE DefaultAuthor)
        m3 == SetDefault(m2, "subject", m2["title"] \o SubjectSuffix)
        m4 == SetDefault(m3, "keywords", DefaultKeywords)
    IN  SetDefault(m4, "creator", DefaultCreator)

beautify(dir, fs, ds, a, metadata, now) ==
    LET an == analyze_and_structure(a)
        given == IF metadata = <<>> THEN EmptyDict ELSE metadata[1]
        m == BeautifyMetadata(given, a.title, a.author, an.val)
        g == generate_pdf(dir, fs, ds, [a EXCEPT !.md = an.val,
                                                 !.style = "business_report"],
                          <<m>>, now)
    IN  IF ~CanPrint(a)
        THEN [res |-> PrintEscapes(Memo), meta |-> given,
              files |-> fs, dirs |-> ds, asm |-> <<>>, eng |-> <<>>]
        ELSE IF ~an.ok
        THEN [res |-> ResultFailed(AgentPdfErrPrefix, an.exc), meta |-> given,
              files |-> fs, dirs |-> ds, asm |-> <<>>, eng |-> <<>>]
        ELSE [res |-> IF g.out.ok
                      THEN ResultOk(g.out.val, <<an.val>>, <<g.meta>>,
                                    AgentPdfOkPrefix \o g.out.val)
                      ELSE ResultFailed(AgentPdfErrPrefix, g.out.exc),
              meta |-> g.meta, files |-> g.files, dirs |-> g.dirs,
              asm |-> g.asm, eng |-> g.eng]

agent_preview_html(dir, fs, ds, a, now) ==
    LET an == analyze_and_structure(a)
        g == gen_preview_html(dir, fs, ds, [a EXCEPT !.md = an.val,
                                                     !.style = "business_report"],
                              now)
    IN  IF ~CanPrint(a)
        THEN [res |-> PrintEscapes(Memo), meta |-> EmptyDict,
              files |-> fs, dirs |-> ds, asm |-> <<>>, eng |-> <<>>]
        ELSE IF ~an.ok
        THEN [res |-> ResultFailed(AgentHtmlErrPrefix, an.exc), meta |-> EmptyDict,
              files |-> fs, dirs |-> ds, asm |-> <<>>, eng |-> <<>>]
        ELSE [res |-> IF g.out.ok
                      THEN ResultOk(g.out.val, <<an.val>>, <<>>,
                                    AgentHtmlOkPrefix \o g.out.val)
                      ELSE ResultFailed(AgentHtmlErrPrefix, g.out.exc),
              meta |-> g.meta, files |-> g.files, dirs |-> g.dirs,
              asm |-> g.asm, eng |-> g.eng]

\* the two setdefault calls of markdown_to_pdf
MarkdownToPdfMetadata(given, markdown_content) ==
    SetDefault(SetDefault(given, "title", _extract_title(markdown_content)),
               "author", DefaultAuthor)

markdown_to_pdf(dir, fs, ds, a, metadata, now) ==
    LET given == IF metadata = <<>> THEN EmptyDict ELSE metadata[1]
        m == MarkdownToPdfMetadata(given, a.md)
        g == generate_pdf(dir, fs, ds, a, <<m>>, now)
    IN  IF ~CanPrint(a)
        THEN [res |-> PrintEscapes(Art), meta |-> m,
              files |-> fs, dirs |-> ds, asm |-> <<>>, eng |-> <<>>]
        ELSE [res |-> IF g.out.ok
                      THEN ResultOk(g.out.val, <<>>, <<g.meta>>,
                                    AgentPdfOkPrefix \o g.out.val)
                      ELSE ResultFailed(AgentPdfErrPrefix, g.out.exc),
              meta |-> g.meta, files |-> g.files, dirs |-> g.dirs,
              asm |-> g.asm, eng |-> g.eng]

(***************************************************************************)
(* The public operations as actions.  A call is one atomic step: the       *)
(* package is synchronous and keeps no state between calls except the      *)
(* files it wrote and the dict objects its callers passed in.              *)
(***************************************************************************)
\* the microseconds a run may last
MaxClock == 2

\* datetime.now().isoformat() at time k in local time z: the naive local
\* wall time of the reading with its microseconds, an hour earlier in
\* standard time than in summer time; at a whole second the fraction is
\* left out, and the text has 19 characters instead of 26
Stamp(z, k) ==
    LET total == 999998 + k
        second == 17 + total \div 1000000
        microsecond == total % 1000000
    IN  "2026-10-31T" \o (IF z = "summer" THEN "01" ELSE "00") \o ":24:"
            \o ToString(second)
            \o (IF microsecond = 0 THEN ""
                ELSE "." \o SubSeq(ToString(1000000 + microsecond), 2, 7))

\* the stamp a reading of the clock gives now
Now == Stamp(zone, clock)

\* the metadata argument: None, or the dict the caller holds
MetaOf(metaArg) == IF metaArg = "cmap" THEN <<cmap>> ELSE <<>>

\* r.asm: _add_metadata_to_html was called, and read the clock; a call
\* takes time, and time has passed when it returns
Commit(op, a, metaArg, result, r) ==
    /\ clock <= MaxClock
    /\ clock' = clock + 1
    /\ files' = r.files
    /\ dirs' = r.dirs
    /\ cmap' = IF metaArg = "cmap" THEN r.meta ELSE cmap
    /\ res' = result
    /\ trace' = [asm |-> r.asm, eng |-> r.eng,
                 now |-> IF r.asm # <<>> THEN Now ELSE ""]
    /\ call' = [op |-> op, a |-> a, metaArg |-> metaArg, before |-> cmap]
    /\ UNCHANGED <<mdIn, extracted, tdir, cssIn, cssOut, zone, asmVars, otherVars>>

Beautify(a, metaArg) ==
    LET r == beautify(tdir, files, dirs, a, MetaOf(metaArg), Now)
    IN  Commit("beautify", a, metaArg, r.res, r)

AgentPreviewHtml(a) ==
    LET r == agent_preview_html(tdir, files, dirs, a, Now)
    IN  Commit("agent_preview_html", a, "none", r.res, r)

MarkdownToPdf(a, metaArg) ==
    LET r == markdown_to_pdf(tdir, files, dirs, a, MetaOf(metaArg), Now)
    IN  Commit("markdown_to_pdf", a, metaArg, r.res, r)

GeneratePdf(a, metaArg) ==
    LET r == generate_pdf(tdir, files, dirs, a, MetaOf(metaArg), Now)
    IN  Commit("generate_pdf", a, metaArg, Direct(r.out), r)

GenPreviewHtml(a) ==
    LET r == gen_preview_html(tdir, files, dirs, a, Now)
    IN  Commit("preview_html", a, "none", Direct(r.out), r)

(***************************************************************************)
(* Inputs                                                                  *)
(***************************************************************************)
MdAlphabet == {"#", " ", "\n", "a"}

\* "# A\n## s" and "# B"
MarkdownDocs == {<<"#", " ", "A", "\n", "#", "#", " ", "s">>, <<"#", " ", "B">>}

OutputPath == <<"out/", "report">>
BaseCss == <<"h">> \o Placeholder["primary"] \o <<";">> \o Placeholder["light"]
AcademicCss == <<"p">> \o Placeholder["accent"]
NoCall == <<>>

PdfFaults == {"none", "markdown", "mkdir", "engine"}
HtmlFaults == {"none", "markdown", "mkdir", "write"}

\* the bytes that reach the file before a failing write fails
WriteLimits == {0, 100}
Limits(f) == IF f = "write" THEN WriteLimits ELSE {0}

\* the argument records of a call: every document, every look (style, theme
\* and toc switch together), every fault, on a stdout that takes the text
Args(docs, titles, authors, looks, faults) ==
    UNION {{[md |-> d, path |-> OutputPath, title |-> t, author |-> u,
             style |-> k.style, theme |-> k.theme, toc |-> k.toc, fault |-> f,
             limit |-> n, stdout |-> "utf-8"] :
               d \in docs, t \in titles, u \in authors, k \in looks,
               n \in Limits(f)} : f \in faults}

(***************************************************************************)
(* Spec: the five public operations over a template directory with or      *)
(* without its files, with every stage failing in turn.                    *)
(***************************************************************************)
TemplateDirs ==
    {EmptyDict,
     [k \in {"business_report"} |-> BaseCss],
     [k \in {"academic"} |-> AcademicCss]}

\* the style argument of the agent selects the prompt, not the template
AgentLooks ==
    {[style |-> "business", theme |-> "blue", toc |-> FALSE],
     [style |-> "business", theme |-> "green", toc |-> TRUE]}
GenLooks ==
    {[style |-> "business_report", theme |-> "blue", toc |-> FALSE],
     [style |-> "academic", theme |-> "green", toc |-> TRUE],
     [style |-> "casual", theme |-> "green", toc |-> FALSE]}

IdlePure ==
    /\ mdIn = <<>>
    /\ extracted = <<>>
    /\ cssIn = <<>>
    /\ cssOut = <<>>

\* no injection asked, no invocation in progress, no graph run
IdleAsm == asmIn = <<>> /\ asmOut = <<>>
IdleOther == race = <<>> /\ graph = <<>> /\ study = <<>>

IdleFiles ==
    /\ files = EmptyDict
    /\ dirs = {}
    /\ call = NoCall
    /\ res = <<>>
    /\ trace = <<>>
    /\ ncalls = 0
    /\ clock = 1
    /\ zone = "summer"

IdleCalls == IdleOther /\ IdleFiles

Init ==
    /\ IdlePure
    /\ IdleAsm
    /\ IdleCalls
    /\ cmap = EmptyDict
    /\ tdir \in TemplateDirs

\* the same calls on a stdout that cannot take the text
Ascii(args) == {[a EXCEPT !.stdout = "ascii"] : a \in args}

AgentArgs(faults) == Args(MarkdownDocs, {<<>>}, {<<>>}, AgentLooks, faults)
GenArgs(faults) == Args(MarkdownDocs, {<<>>}, {<<>>}, GenLooks, faults)

\* the calls made on a stdout that cannot take the text: one document, with
\* and without a failing analyzer
PlainArgs ==
    Args({<<"#", " ", "B">>}, {<<>>}, {<<>>},
         {[style |-> "business_report", theme |-> "blue", toc |-> TRUE]},
         {"none", "analyzer"})

\* a microsecond passes
Tick ==
    /\ clock < MaxClock
    /\ clock' = clock + 1
    /\ UNCHANGED <<mdIn, extracted, tdir, cssIn, cssOut, files, dirs, cmap, call, res,
                   trace, ncalls, zone, asmVars, otherVars>>

\* summer time ends: the local time is set back an hour, and datetime.now(),
\* the naive wall clock, reads earlier than it did before
SetBack ==
    /\ zone = "summer"
    /\ zone' = "standard"
    /\ UNCHANGED <<mdIn, extracted, tdir, cssIn, cssOut, files, dirs, cmap, call, res,
                   trace, ncalls, clock, asmVars, otherVars>>

\* a call of a run whose length is not bounded
Free(A) == A /\ UNCHANGED ncalls
\* a call of a run of at most MaxCalls calls
Counted(A) == ncalls < MaxCalls /\ A /\ ncalls' = ncalls + 1

Next ==
    \/ \E a \in AgentArgs(PdfFaults \cup {"analyzer"}) \cup Ascii(PlainArgs) :
           Free(Beautify(a, "none"))
    \/ \E a \in AgentArgs(HtmlFaults \cup {"analyzer"}) \cup Ascii(PlainArgs) :
           Free(AgentPreviewHtml(a))
    \/ \E a \in GenArgs(PdfFaults) \cup Ascii(PlainArgs) :
           Free(MarkdownToPdf(a, "none"))
    \/ \E a \in GenArgs(PdfFaults) : Free(GeneratePdf(a, "none"))
    \/ \E a \in GenArgs(HtmlFaults) : Free(GenPreviewHtml(a))
    \/ Tick
    \/ SetBack

Spec == Init /\ [][Next]_vars

(***************************************************************************)
(* SpecMeta: up to MaxCalls calls by a caller that holds one metadata dict *)
(* and passes it, or None, with and without explicit title and author.     *)
(***************************************************************************)
FullDir ==
    [k \in {"business_report", "academic"} |->
        IF k = "academic" THEN AcademicCss ELSE BaseCss]

\* the dict the caller starts with: empty, partial, or with title and author
CallerMaps ==
    {EmptyDict,
     [k \in {"title"} |-> <<"M">>],
     [k \in {"title", "author"} |-> IF k = "title" THEN <<"M">> ELSE <<"N">>]}

MetaLooks == {[style |-> "business_report", theme |-> "green", toc |-> FALSE]}

InitMeta ==
    /\ IdlePure
    /\ IdleAsm
    /\ IdleCalls
    /\ cmap \in CallerMaps
    /\ tdir = FullDir

MetaArgs == {"none", "cmap"}
BeautifyMetaArgs ==
    Args(MarkdownDocs, {<<>>, <<(<<"T">>)>>}, {<<>>, <<(<<"U">>)>>}, MetaLooks,
         {"none"})
PdfMetaArgs == Args(MarkdownDocs, {<<>>}, {<<>>}, MetaLooks, {"none", "markdown"})
GenMetaArgs == Args(MarkdownDocs, {<<>>}, {<<>>}, MetaLooks, {"none", "engine"})
HtmlMetaArgs == Args(MarkdownDocs, {<<>>}, {<<>>}, MetaLooks, {"none"})

NextMeta ==
    \/ \E a \in BeautifyMetaArgs, m \in MetaArgs : Counted(Beautify(a, m))
    \/ \E a \in HtmlMetaArgs : Counted(AgentPreviewHtml(a))
    \/ \E a \in PdfMetaArgs \cup Ascii(HtmlMetaArgs), m \in MetaArgs :
           Counted(MarkdownToPdf(a, m))
    \/ \E a \in GenMetaArgs, m \in MetaArgs : Counted(GeneratePdf(a, m))
    \/ \E a \in HtmlMetaArgs : Counted(GenPreviewHtml(a))
    \/ Tick
    \/ SetBack

SpecMeta == InitMeta /\ [][NextMeta]_vars

(***************************************************************************)
(* SpecTitle: _extract_title on every markdown text of up to MaxMdLen      *)
(* characters.                                                             *)
(***************************************************************************)
InitTitle ==
    /\ mdIn \in SeqsUpTo(MdAlphabet, MaxMdLen)
    /\ extracted = <<>>
    /\ cssIn = <<>>
    /\ cssOut = <<>>
    /\ IdleAsm
    /\ IdleCalls
    /\ cmap = EmptyDict
    /\ tdir = EmptyDict

ExtractTitle ==
    /\ extracted = <<>>
    /\ extracted' = <<_extract_title(mdIn)>>
    /\ UNCHANGED <<mdIn, tdir, cssIn, cssOut, files, dirs, cmap, call, res, trace,
                   ncalls, clock, zone, asmVars, otherVars>>

NextTitle == ExtractTitle

SpecTitle == InitTitle /\ [][NextTitle]_vars

(***************************************************************************)
(* SpecCss: _generate_css for every template of up to MaxCssTokens pieces  *)
(* (the five placeholder colors and other text), every directory layout,   *)
(* every style and theme name.                                             *)
(***************************************************************************)
CssPieces == {Placeholder[r] : r \in Roles} \cup {<<"x">>}
CssTemplates == {Concat(p) : p \in SeqsUpTo(CssPieces, MaxCssTokens)}
CssDirs ==
    {EmptyDict, [k \in {"academic"} |-> AcademicCss]}
        \cup {[k \in {"business_report"} |-> t] : t \in CssTemplates}
        \cup {[k \in {"business_report", "academic"} |->
                 IF k = "academic" THEN AcademicCss ELSE t] : t \in CssTemplates}
CssStyles == {"business_report", "academic", "casual"}
ThemeNames == {"blue", "green", "purple", "red", "orange", "teal"}

InitCss ==
    /\ tdir \in CssDirs
    /\ cssIn \in [style : CssStyles, theme : ThemeNames]
    /\ cssOut = <<>>
    /\ mdIn = <<>>
    /\ extracted = <<>>
    /\ IdleAsm
    /\ IdleCalls
    /\ cmap = EmptyDict

GenerateCss ==
    /\ cssOut' = <<[theme |-> ResolveTheme(cssIn.theme),
                    out |-> _generate_css(tdir, cssIn.style, cssIn.theme)]>>
    /\ UNCHANGED <<mdIn, extracted, tdir, cssIn, files, dirs, cmap, call, res,
                   trace, ncalls, clock, zone, asmVars, otherVars>>

NextCss == GenerateCss

SpecCss == InitCss /\ [][NextCss]_vars

(***************************************************************************)
(* SpecEmit: calls that write one output path again and again, until       *)
(* MaxEmits of them have succeeded; ncalls counts the successful ones.     *)
(***************************************************************************)
MaxEmits == 2

EmitPdfFaults == {"none", "engine"}
EmitHtmlFaults == {"none", "write"}

InitEmit ==
    /\ IdlePure
    /\ IdleAsm
    /\ IdleCalls
    /\ cmap = EmptyDict
    /\ tdir = FullDir

Emit(A) ==
    /\ ncalls < MaxEmits
    /\ A
    /\ ncalls' = IF res'.success THEN ncalls + 1 ELSE ncalls

NextEmit ==
    \/ \E a \in AgentArgs(EmitPdfFaults) : Emit(Beautify(a, "none"))
    \/ \E a \in AgentArgs(EmitHtmlFaults) : Emit(AgentPreviewHtml(a))
    \/ \E a \in GenArgs(EmitPdfFaults) : Emit(MarkdownToPdf(a, "none"))
    \/ \E a \in GenArgs(EmitPdfFaults) : Emit(GeneratePdf(a, "none"))
    \/ \E a \in GenArgs(EmitHtmlFaults) : Emit(GenPreviewHtml(a))
    \/ Tick
    \/ SetBack

SpecEmit == InitEmit /\ [][NextEmit]_vars

(***************************************************************************)
(* SpecRace: two invocations of PDFGenerator.preview_html on one output    *)
(* path, run by two threads or processes.  An invocation takes the steps   *)
(* of the code one by one: the in-memory stages, resolve and mkdir, open,  *)
(* write and close, return; nothing in the code orders the steps of one    *)
(* invocation against those of the other.                                  *)
(***************************************************************************)
Procs == {1, 2}

\* mkdir that fails on a directory that is there (exist_ok left out)
MkdirExclusive(ds, dir) ==
    IF dir \in ds THEN Raised(<<(<<"[Errno 17] File exists: '">> \o dir \o <<"'">>)>>)
    ELSE Returned(ds \cup {dir})

\* output_path.parent.mkdir(parents=True, exist_ok=True)
Mkdir(ds, dir) == Returned(ds \cup {dir})

\* write(2) of text through a handle whose offset is 0: its bytes replace
\* the first bytes of the file, as many as it has; what lies behind stays
WriteAtStart(old, text) == text \o DropBytes(old, ByteLen(text))

IdleProc == [pc |-> "idle", a |-> <<>>, now |-> "", text |-> <<>>, out |-> <<>>]

RaceArgs ==
    Args(MarkdownDocs, {<<>>}, {<<>>},
         {[style |-> "business_report", theme |-> "blue", toc |-> FALSE]},
         {"none", "markdown"})

InitRace ==
    /\ IdlePure
    /\ IdleAsm
    /\ IdleFiles
    /\ cmap = EmptyDict
    /\ tdir = FullDir
    /\ graph = <<>>
    /\ study = <<>>
    /\ race = [procs |-> [p \in Procs |-> IdleProc], order |-> <<>>]

raceFrame == <<mdIn, extracted, tdir, cssIn, cssOut, cmap, call, res, trace, ncalls,
               asmVars, graph, study>>

At(p, pc) == race.procs[p].pc = pc
Goto(p, pc) == [race EXCEPT !.procs[p].pc = pc]

\* lines 309-329: conversion, CSS, metadata and inlining, all in memory
RaceAssemble(p, a) ==
    LET alone == gen_preview_html(tdir, EmptyDict, {}, a, Now)
        began == [race EXCEPT !.order = Append(@, p), !.procs[p].a = a,
                              !.procs[p].now = Now]
    IN  /\ At(p, "idle")
        /\ race' = IF alone.out.ok
                    THEN [began EXCEPT
                             !.procs[p].pc = "mkdir",
                             !.procs[p].text = alone.files[Resolve(a.path)].html]
                    ELSE [began EXCEPT !.procs[p].pc = "raised",
                                       !.procs[p].out = alone.out]
        /\ UNCHANGED <<files, dirs, raceFrame, clock, zone>>

\* lines 331-332
RaceMkdir(p) ==
    LET made == Mkdir(dirs, Parent(Resolve(race.procs[p].a.path))) IN
    /\ At(p, "mkdir")
    /\ IF made.ok
       THEN dirs' = made.val /\ race' = Goto(p, "open")
       ELSE /\ dirs' = dirs
            /\ race' = [race EXCEPT !.procs[p].pc = "raised",
                                     !.procs[p].out =
                                         Raised(Wrap(HtmlFailPrefix, made.exc))]
    /\ UNCHANGED <<files, raceFrame, clock, zone>>

\* line 334: open(output_path, "w") creates the file or truncates it
RaceOpen(p) ==
    /\ At(p, "open")
    /\ files' = SetItem(files, Resolve(race.procs[p].a.path), HtmlFile(<<>>))
    /\ race' = Goto(p, "write")
    /\ UNCHANGED <<dirs, raceFrame, clock, zone>>

\* line 335 and the end of the with block: the buffered text is written
\* through this invocation's own handle when the file is closed
RaceWrite(p) ==
    LET path == Resolve(race.procs[p].a.path) IN
    /\ At(p, "write")
    /\ files' = SetItem(files, path,
                        HtmlFile(WriteAtStart(files[path].html, race.procs[p].text)))
    /\ race' = Goto(p, "return")
    /\ UNCHANGED <<dirs, raceFrame, clock, zone>>

\* line 337
RaceReturn(p) ==
    /\ At(p, "return")
    /\ race' = [race EXCEPT !.procs[p].pc = "done",
                             !.procs[p].out = Returned(Resolve(race.procs[p].a.path))]
    /\ UNCHANGED <<files, dirs, raceFrame, clock, zone>>

NextRace ==
    \/ \E p \in Procs, a \in RaceArgs : RaceAssemble(p, a)
    \/ \E p \in Procs : RaceMkdir(p)
    \/ \E p \in Procs : RaceOpen(p)
    \/ \E p \in Procs : RaceWrite(p)
    \/ \E p \in Procs : RaceReturn(p)
    \/ Tick
    \/ SetBack

SpecRace == InitRace /\ [][NextRace]_vars

(***************************************************************************)
(* The LangGraph pipeline of test/test.py: plan_questions -> research ->   *)
(* (research | synthesize) -> END.  The graph state is the PipelineState    *)
(* dict; a node returns an update whose keys overwrite those of the state. *)
(* The LLM agents are the environment: the planner answers with any plan   *)
(* of up to MaxQuestions questions, the researcher with any summary; meta  *)
(* and insight_text only reach the prompts and are left out.               *)
(***************************************************************************)
MaxQuestions == 4

\* a text of n characters
Text(n) == [i \in 1..n |-> "x"]

\* SearchQuestion.model_dump(): category, question, priority and no id
Question(category, question, priority) ==
    [k \in {"category", "question", "priority"} |->
        IF k = "category" THEN category
        ELSE IF k = "question" THEN question ELSE priority]

\* f"q{idx+1}"
QId(n) == <<"q", n>>

\* _ensure_question_ids that numbers every question by the length of the list
_ensure_question_ids_by_len(questions) ==
    [i \in DOMAIN questions |-> SetDefault(questions[i], "id", QId(Len(questions)))]

_ensure_question_ids(questions) ==
    [i \in DOMAIN questions |-> SetDefault(questions[i], "id", QId(i))]

\* run_pipeline's initial_state
InitialState ==
    [questions |-> <<>>, research_notes |-> <<>>, report_structured |-> <<>>,
     report_markdown |-> <<>>, errors |-> <<>>]

\* a state key takes the value the node returned for it
ApplyUpdate(state, update) ==
    [k \in DOMAIN state \cup DOMAIN update |->
        IF k \in DOMAIN update THEN update[k] ELSE state[k]]

Update1(k, v) == [x \in {k} |-> v]

\* plan: the QuestionPlan.questions the planner agent answered with
plan_questions_node(state, plan) ==
    [questions |-> _ensure_question_ids(plan), research_notes |-> <<>>,
     report_structured |-> <<>>, report_markdown |-> <<>>]

\* done_ids and pending, as research_node and route_from_research compute them
DoneIds(research_notes) ==
    {research_notes[j]["question_id"] : j \in DOMAIN research_notes}
IsPending(q, done_ids) == q["id"] \notin done_ids
Pending(questions, research_notes) ==
    LET done_ids == DoneIds(research_notes)
        pending(q) == IsPending(q, done_ids)
    IN  SelectSeq(questions, pending)

max_per_call == 3
ShortSummary == 200
RefineSuffix == <<" (recent 2-3 years, concrete cases)">>

\* run_research_for_question: the note for what the agent answered
Note(question, summary) ==
    [k \in {"category", "question", "priority", "summary", "sources"} |->
        IF k = "summary" THEN summary
        ELSE IF k = "sources" THEN <<>> ELSE question[k]]

\* ResearchOne that keeps the retry unless it is shorter
ResearchOneRetryUnlessShorter(q, answer) ==
    LET q_model == Question(q["category"], q["question"], Get(q, "priority", 1))
        note == Note(q_model, answer.first)
        refined == Question(q_model["category"],
                            q_model["question"] \o RefineSuffix,
                            q_model["priority"])
        note_retry == Note(refined, answer.retry)
        retried == Len(note["summary"]) < ShortSummary
        chosen == IF retried /\ Len(note_retry["summary"]) >= Len(note["summary"])
                  THEN note_retry ELSE note
    IN  [kept |-> SetItem(chosen, "question_id", q["id"]),
         asked |-> IF retried THEN <<q_model, refined>> ELSE <<q_model>>]

\* the body of the for loop for one pending question q; answer.first and
\* answer.retry are what the agent answers to the question and to the
\* refined question.  kept: the note appended; asked: the agent invocations
ResearchOne(q, answer) ==
    LET q_model == Question(q["category"], q["question"], Get(q, "priority", 1))
        note == Note(q_model, answer.first)
        refined == Question(q_model["category"],
                            q_model["question"] \o RefineSuffix,
                            q_model["priority"])
        note_retry == Note(refined, answer.retry)
        retried == Len(note["summary"]) < ShortSummary
        chosen == IF retried /\ Len(note_retry["summary"]) > Len(note["summary"])
                  THEN note_retry ELSE note
    IN  [kept |-> SetItem(chosen, "question_id", q["id"]),
         asked |-> IF retried THEN <<q_model, refined>> ELSE <<q_model>>]

RECURSIVE ResearchLoop(_, _, _, _)
\* for q in pending[:max_per_call], from the k-th on
ResearchLoop(batch, answers, k, acc) ==
    IF k > Len(batch) THEN acc
    ELSE LET one == ResearchOne(batch[k], answers[k]) IN
         ResearchLoop(batch, answers, k + 1,
                      [notes |-> Append(acc.notes, one.kept),
                       asked |-> acc.asked \o one.asked])

\* Batch without the slice: every pending question
BatchAll(pending) == pending

\* pending[:max_per_call]
Batch(pending) ==
    SubSeq(pending, 1, IF Len(pending) < max_per_call THEN Len(pending)
                       ELSE max_per_call)

\* the update research_node returns, and the agent invocations it made
research_node(state, answers) ==
    LET pending == Pending(state["questions"], state["research_notes"])
        done == ResearchLoop(Batch(pending), answers, 1,
                             [notes |-> state["research_notes"], asked |-> <<>>])
    IN  IF pending = <<>> THEN [update |-> EmptyDict, asked |-> <<>>]
        ELSE [update |-> Update1("research_notes", done.notes),
              asked |-> done.asked]

NoQuestionsError == <<"no questions: plan_questions_node must run first">>
NoNotesError == <<"no research notes: research_node must run first">>

\* report: what the strategist agent answered with
synthesize_node(state, report) ==
    IF state["questions"] = <<>>
    THEN Update1("errors", Append(state["errors"], NoQuestionsError))
    ELSE IF state["research_notes"] = <<>>
    THEN Update1("errors", Append(state["errors"], NoNotesError))
    ELSE [report_structured |-> <<report>>,
          report_markdown |-> <<(<<"# report">> \o report)>>]

\* route_from_research that asks for research while there is no note at all
route_when_no_notes(state) ==
    IF state["research_notes"] = <<>> THEN "research" ELSE "synthesize"

route_from_research(state) ==
    IF Pending(state["questions"], state["research_notes"]) # <<>>
    THEN "research" ELSE "synthesize"

(***************************************************************************)
(* SpecGraph: one run of graph.invoke(initial_state).  A superstep runs    *)
(* the node the graph is at and follows its edge; the run goes on until    *)
(* END, or until the runner has made RecursionLimit supersteps and finds   *)
(* a node still to run: it then raises GraphRecursionError.                *)
(***************************************************************************)
\* recursion_limit of graph.invoke, which run_pipeline leaves at its default
RecursionLimit == 25

QuestionPool ==
    <<Question(<<"ingredients">>, <<"Q1">>, 1), Question(<<"price">>, <<"Q2">>, 2)>>

\* a plan that needs more supersteps than the runner makes: QuestionPlan
\* puts no limit on the number of questions
LongPlan == [i \in 1..(max_per_call * RecursionLimit) |-> QuestionPool[1]]

\* the plans: n times the same question, or two questions in turn, and the
\* long plan
Plans ==
    {[i \in 1..n |-> IF turn /\ i % 2 = 0 THEN QuestionPool[2] ELSE QuestionPool[1]] :
        n \in 0..MaxQuestions, turn \in BOOLEAN} \cup {LongPlan}

\* what the research agent may answer: nothing, just under and just at the
\* length below which research_node asks again
Summaries == {Text(0), Text(ShortSummary - 1), Text(ShortSummary)}
Answers(n) == [1..n -> [first : Summaries, retry : Summaries]]

\* the answers drawn for a batch of n questions: every one for a plan of
\* up to MaxQuestions questions, one long enough for the long plan
AnswersTo(questions, n) ==
    IF Len(questions) <= MaxQuestions THEN Answers(n)
    ELSE {[i \in 1..n |-> [first |-> Text(ShortSummary), retry |-> Text(0)]]}

InitGraph ==
    /\ IdlePure
    /\ IdleAsm
    /\ IdleFiles
    /\ cmap = EmptyDict
    /\ tdir = EmptyDict
    /\ race = <<>>
    /\ study = <<>>
    /\ graph = [node |-> "plan_questions", last |-> "", state |-> InitialState,
                asked |-> <<>>, steps |-> 0, supersteps |-> 0, status |-> "running"]

graphFrame == <<mdIn, extracted, tdir, cssIn, cssOut, files, dirs, cmap, call, res,
                trace, ncalls, clock, zone, asmVars, race, study>>

\* the runner runs the node the graph is at
Runs(node) ==
    /\ graph.status = "running"
    /\ graph.node = node
    /\ graph.supersteps < RecursionLimit

PlanQuestions ==
    /\ Runs("plan_questions")
    /\ \E plan \in Plans :
           graph' = [graph EXCEPT
                        !.state = ApplyUpdate(@, plan_questions_node(@, plan)),
                        !.supersteps = @ + 1,
                        !.last = "plan_questions",
                        !.node = "research"]
    /\ UNCHANGED graphFrame

Research ==
    /\ Runs("research")
    /\ LET n == Len(Batch(Pending(graph.state["questions"],
                                  graph.state["research_notes"])))
       IN  \E answers \in AnswersTo(graph.state["questions"], n) :
               LET r == research_node(graph.state, answers)
                   after == ApplyUpdate(graph.state, r.update)
               IN  graph' = [graph EXCEPT !.state = after,
                                          !.asked = @ \o r.asked,
                                          !.steps = @ + 1,
                                          !.supersteps = @ + 1,
                                          !.last = "research",
                                          !.node = route_from_research(after)]
    /\ UNCHANGED graphFrame

Synthesize ==
    /\ Runs("synthesize")
    /\ graph' = [graph EXCEPT
                    !.state = ApplyUpdate(@, synthesize_node(@, <<"strategy">>)),
                    !.supersteps = @ + 1,
                    !.last = "synthesize",
                    !.node = "END",
                    !.status = "done"]
    /\ UNCHANGED graphFrame

\* the runner has made RecursionLimit supersteps and a node is still to
\* run: graph.invoke raises GraphRecursionError
OutOfSteps ==
    /\ graph.status = "running"
    /\ graph.node # "END"
    /\ graph.supersteps = RecursionLimit
    /\ graph' = [graph EXCEPT !.status = "out_of_steps"]
    /\ UNCHANGED graphFrame

NextGraph ==
    \/ PlanQuestions
    \/ Research
    \/ Synthesize
    \/ OutOfSteps

\* the graph runner runs a node as long as there is one to run
SpecGraph == InitGraph /\ [][NextGraph]_vars /\ WF_vars(NextGraph)

(***************************************************************************)
(* SpecStudy: one pass of the loop of research_node, for every planned     *)
(* question and every pair of answers of the research agent.               *)
(***************************************************************************)
\* the planned questions, with the ids plan_questions_node gave them
StudyQuestions ==
    UNION {{_ensure_question_ids(plan)[i] : i \in DOMAIN plan} : plan \in Plans}

\* answers around the length below which the question is asked again
StudySummaries ==
    {Text(0), Text(1), Text(ShortSummary - 1), Text(ShortSummary),
     Text(ShortSummary + 1)}

InitStudy ==
    /\ IdlePure
    /\ IdleAsm
    /\ IdleFiles
    /\ cmap = EmptyDict
    /\ tdir = EmptyDict
    /\ race = <<>>
    /\ graph = <<>>
    /\ study \in [q : StudyQuestions,
                   answer : [first : StudySummaries, retry : StudySummaries],
                   out : {<<>>}]

StudyOne ==
    /\ study.out = <<>>
    /\ study' = [study EXCEPT !.out = <<ResearchOne(study.q, study.answer)>>]
    /\ UNCHANGED <<mdIn, extracted, tdir, cssIn, cssOut, files, dirs, cmap, call,
                   res, trace, ncalls, clock, zone, asmVars, race, graph>>

NextStudy == StudyOne

SpecStudy == InitStudy /\ [][NextStudy]_vars

(***************************************************************************)
(* SpecAsm: one generate_pdf or preview_html call on every markdown text   *)
(* of up to MaxAsmLen pieces, among them raw HTML that spells the markers  *)
(* the assembler searches for, with and without the table of contents.     *)
(***************************************************************************)
MaxAsmLen == 4

AsmAlphabet == {"#", " ", "\n", "a", "<body>", "</head>"}
AsmDocs == SeqsUpTo(AsmAlphabet, MaxAsmLen)
AsmLooks ==
    {[style |-> "business_report", theme |-> "blue", toc |-> FALSE],
     [style |-> "business_report", theme |-> "blue", toc |-> TRUE]}
AsmArgs == Args(AsmDocs, {<<>>}, {<<>>}, AsmLooks, {"none"})

InitAsm ==
    /\ IdlePure
    /\ IdleAsm
    /\ IdleCalls
    /\ cmap = EmptyDict
    /\ tdir = FullDir

\* the first call on a fresh output directory
First(A) == call = NoCall /\ A /\ UNCHANGED ncalls

NextAsm ==
    \/ \E a \in AsmArgs : First(GeneratePdf(a, "none"))
    \/ \E a \in AsmArgs : First(GenPreviewHtml(a))

SpecAsm == InitAsm /\ [][NextAsm]_vars

(***************************************************************************)
(* SpecInject: _add_metadata_to_html applied up to MaxApply times, each    *)
(* time to its own result, starting from every document of up to MaxDocLen *)
(* pieces of the markers and other text.                                   *)
(***************************************************************************)
MaxDocLen == 3
MaxApply == 2

InjectAlphabet == {"<title>", "Document", "</title>", "</head>", "<body>", "x"}
InjectDocs == SeqsUpTo(InjectAlphabet, MaxDocLen)
InjectMetas ==
    {EmptyDict,
     [k \in {"title", "author"} |-> IF k = "title" THEN <<"</head>">> ELSE <<"U">>]}
InjectTocs == {<<>>, <<"<ul>", "<body>", "</ul>">>}

InitInject ==
    /\ asmIn \in [doc : InjectDocs, metadata : InjectMetas, toc : InjectTocs]
    /\ asmOut = <<>>
    /\ IdlePure
    /\ IdleCalls
    /\ cmap = EmptyDict
    /\ tdir = EmptyDict

Inject ==
    LET n == IF asmOut = <<>> THEN 0 ELSE asmOut[1].n
        doc == IF asmOut = <<>> THEN asmIn.doc ELSE asmOut[1].doc
    IN  /\ n < MaxApply
        /\ asmOut' = <<[n |-> n + 1,
                        doc |-> _add_metadata_to_html(doc, asmIn.metadata,
                                                      asmIn.toc, Now)]>>
        /\ UNCHANGED <<mdIn, extracted, tdir, cssIn, cssOut, files, dirs, cmap,
                       call, res, trace, ncalls, clock, zone, asmIn, otherVars>>

\* between two applications time may pass or not: two readings of the
\* clock can give one stamp
NextInject ==
    \/ Inject
    \/ Tick
    \/ SetBack

SpecInject == InitInject /\ [][NextInject]_vars

(***************************************************************************)
(* Properties                                                              *)
(***************************************************************************)
AgentOps == {"beautify", "agent_preview_html", "markdown_to_pdf"}
HtmlOps == {"agent_preview_html", "preview_html"}

\* the template style a call asks of _generate_css
EffStyle(c) ==
    IF c.op \in {"beautify", "agent_preview_html"} THEN "business_report"
    ELSE c.a.style

\* neither the style's file nor the fallback is in the template directory
CssMissing(c) == EffStyle(c) \notin DOMAIN tdir /\ FallbackStyle \notin DOMAIN tdir

\* some stage of the call failed
StageFailed(c) == c.a.fault # "none" \/ CssMissing(c)

\* the text in which the caller sees the failure
ErrorText(r) == IF r.how = "raise" THEN StrOf(r.exc) ELSE r.message

\* the map the caller supplied, as it was before the call
Supplied(c) == IF c.metaArg = "cmap" THEN c.before ELSE EmptyDict

\* C1 as stated: beautify, preview_html and markdown_to_pdf of the agent
\* never let an exception reach the caller; when a stage fails (analyzer,
\* markdown, CSS loading, engine, write) the result has success false, a
\* null artifact path and a non-empty message.
C1_AgentNeverRaises ==
    (call # NoCall /\ call.op \in AgentOps) =>
        /\ res.how = "dict"
        /\ StageFailed(call) =>
               (res.success = FALSE /\ res.path = <<>> /\ res.message # <<>>)

\* the text of the level-1 heading on the first line of a document
FirstLineHeading(doc) ==
    LET first == Head(Split(doc, "\n"))
    IN  Strip(SubSeq(first, Len(HeadingPrefix) + 1, Len(first)))

TitleElement(t) == <<"<title>">> \o t \o <<"</title>">>

\* an HTML-mode call as the end-to-end scenario makes it: first line a
\* level-1 heading, template business_report, theme blue, no table of
\* contents, nothing failing
C2_Scenario ==
    /\ call # NoCall
    /\ call.op \in HtmlOps
    /\ StartsWith(call.a.md, HeadingPrefix)
    /\ EffStyle(call) = "business_report"
    /\ call.a.theme = "blue"
    /\ call.a.toc = FALSE
    /\ ~StageFailed(call)

\* C2 as stated: the HTML-mode call succeeds, returns a path ending in the
\* given file name, and the written file contains <title>T</title> for the
\* heading text T of the document.
C2_TitleIsHeading ==
    C2_Scenario =>
        /\ res.success
        /\ EndsWith(res.path[1], FileName(call.a.path))
        /\ Contains(files[res.path[1]].html,
                    TitleElement(FirstLineHeading(call.a.md)))

\* C3 as stated: in the metadata beautify builds, for title and for author
\* alike, the explicit argument wins over the entry of the caller's map,
\* which wins over the computed default.
C3_ExplicitFirst ==
    (call # NoCall /\ call.op = "beautify" /\ res.success) =>
        LET m == res.metadata[1]
            given == Supplied(call)
        IN  /\ m["title"] =
                   IF Truthy(call.a.title) THEN call.a.title[1]
                   ELSE IF "title" \in DOMAIN given THEN given["title"]
                   ELSE _extract_title(call.a.md)
            /\ m["author"] =
                   IF Truthy(call.a.author) THEN call.a.author[1]
                   ELSE IF "author" \in DOMAIN given THEN given["author"]
                   ELSE DefaultAuthor

RECURSIVE ClaimedHeading(_)
\* the title as C4 words it: the first line that is a level-1 heading, the
\* characters after its leading "# ", trimmed and otherwise untouched
ClaimedHeading(lines) ==
    IF lines = <<>> THEN DocumentLit
    ELSE LET line == Strip(Head(lines)) IN
         IF StartsWith(line, HeadingPrefix)
         THEN Strip(SubSeq(line, Len(HeadingPrefix) + 1, Len(line)))
         ELSE ClaimedHeading(Tail(lines))

\* C4 as stated: with no title supplied, the title is the text after the
\* leading "# " of the first level-1 heading line, trimmed and with nothing
\* else removed, also when that text begins with "#"; without a level-1
\* heading it is "Document".
C4_TitleIsHeadingText ==
    extracted # <<>> => extracted[1] = ClaimedHeading(Split(mdIn, "\n"))

\* C5 as stated: a call leaves the metadata map the caller supplied as it
\* was before the call, also when the call fails, so that calls that reuse
\* one map do not see each other.
C5_MapUnchanged ==
    (call # NoCall /\ call.metaArg = "cmap") => cmap = call.before

\* C6: the theme lookup is total and deterministic: every name resolves to
\* a definition with all five tokens, a registered name to its own entry,
\* any other name to the blue entry, and resolving again gives the same.
C6_ThemeLookup ==
    cssOut # <<>> =>
        LET t == cssOut[1].theme
            n == cssIn.theme
        IN  /\ DOMAIN t = Roles
            /\ n \in DOMAIN COLOR_THEMES => t = COLOR_THEMES[n]
            /\ n \notin DOMAIN COLOR_THEMES => t = COLOR_THEMES["blue"]
            /\ t = ResolveTheme(n)

C6_Witness ==
    /\ cssOut # <<>>
    /\ cssIn.theme = "teal"
    /\ cssOut[1].theme["primary"] = Placeholder["primary"]

\* C7: for a style without a file of its own, while business_report.css is
\* in the template directory, _generate_css does not fail and returns the
\* content of business_report.css with the theme applied, as it does for
\* the style business_report.
C7_FallbackTemplate ==
    (/\ cssOut # <<>>
     /\ cssIn.style \notin DOMAIN tdir
     /\ FallbackStyle \in DOMAIN tdir) =>
        /\ cssOut[1].out.ok
        /\ cssOut[1].out.val =
               ApplyTheme(tdir[FallbackStyle], ResolveTheme(cssIn.theme))
        /\ cssOut[1].out = _generate_css(tdir, FallbackStyle, cssIn.theme)

C7_Witness ==
    /\ cssOut # <<>>
    /\ cssIn.style = "casual"
    /\ cssIn.theme = "green"
    /\ DOMAIN tdir = {"business_report", "academic"}
    /\ Contains(tdir[FallbackStyle], Placeholder["accent"])
    /\ cssOut[1].out.ok
    /\ Contains(cssOut[1].out.val, COLOR_THEMES["green"]["accent"])

\* C8: when neither the style's file nor business_report.css is in the
\* template directory and the call gets as far as loading the CSS, the call
\* fails with an error naming the missing business_report.css path (a third
\* template is never tried, no empty or unthemed CSS stands in), nothing
\* reaches the assembler, and no file or directory is written.
C8_MissingTemplateFails ==
    [][(/\ call' # NoCall
        /\ CssMissing(call')
        /\ CanPrint(call'.a)
        /\ call'.a.fault \notin {"analyzer", "markdown"}) =>
           /\ res'.success = FALSE
           /\ res'.how # "return"
           /\ Contains(ErrorText(res'), CssPath(FallbackStyle))
           /\ trace'.asm = <<>>
           /\ files' = files
           /\ dirs' = dirs]_vars

C8_Witness ==
    /\ call # NoCall
    /\ call.op = "generate_pdf"
    /\ call.a.style = "casual"
    /\ call.a.fault = "none"
    /\ DOMAIN tdir = {"academic"}
    /\ res.how = "raise"
    /\ files # EmptyDict

RECURSIVE Simultaneous(_, _)
\* one left-to-right pass that replaces each placeholder by the token of
\* its role
Simultaneous(css, theme) ==
    IF css = <<>> THEN <<>>
    ELSE LET hit == {r \in Roles : StartsWith(css, Placeholder[r])} IN
         IF hit = {} THEN <<Head(css)>> \o Simultaneous(Tail(css), theme)
         ELSE LET r == CHOOSE x \in hit : TRUE IN
              theme[r] \o Simultaneous(
                  SubSeq(css, Len(Placeholder[r]) + 1, Len(css)), theme)

RecoloringThemes == {"green", "purple", "red", "orange"}

\* C9: for green, purple, red and orange, on a template whose colors are
\* the five placeholders, the CSS returned holds none of the placeholders
\* and equals the template with every placeholder replaced by the token of
\* its role in one simultaneous pass.
C9_SequentialIsSimultaneous ==
    (cssOut # <<>> /\ cssIn.theme \in RecoloringThemes /\ cssOut[1].out.ok) =>
        LET css == cssOut[1].out.val
            template == tdir[CssStyleUsed(tdir, cssIn.style)]
        IN  /\ \A r \in Roles : ~Contains(css, Placeholder[r])
            /\ css = Simultaneous(template, COLOR_THEMES[cssIn.theme])

C9_Witness ==
    /\ cssOut # <<>>
    /\ cssIn.theme = "orange"
    /\ cssIn.style = "business_report"
    /\ cssOut[1].out.ok
    /\ "business_report" \in DOMAIN tdir
    /\ Contains(tdir["business_report"], Placeholder["primary"])
    /\ Contains(tdir["business_report"], Placeholder["light"])
    /\ Contains(cssOut[1].out.val, COLOR_THEMES["orange"]["light"])

\* the metadata dicts the last call handed to the assembler and the engine
Attached == {trace.asm[i] : i \in DOMAIN trace.asm}
                \cup {trace.eng[i] : i \in DOMAIN trace.eng}

\* C10: whenever a call hands metadata to the assembler or to the PDF
\* engine, the dict holds the keys title and author, whatever the caller
\* supplied (None, an empty or a partial map); a call that succeeds has
\* handed metadata to the assembler.
C10_TitleAndAuthorPresent ==
    call # NoCall =>
        /\ \A m \in Attached : {"title", "author"} \subseteq DOMAIN m
        /\ res.success => trace.asm # <<>>
        /\ (res.success /\ call.op \notin HtmlOps) => trace.eng # <<>>

C10_Witness ==
    /\ call # NoCall
    /\ call.op = "generate_pdf"
    /\ call.metaArg = "cmap"
    /\ DOMAIN call.before = {"title"}
    /\ res.success
    /\ trace.eng # <<>>
    /\ trace.eng[1]["author"] = DefaultAuthor

\* the document a successful call emitted: the HTML written in HTML mode,
\* the HTML handed to the engine in PDF mode
Emitted == files[res.path[1]].html

\* the converter's fragments for the markdown of the last call
Fragments == _markdown_to_html(call.a.md, call.a.toc, call.a.fault).val

TocContainer == <<"<div class=\"table-of-contents\">">>
PageBreak == <<"<div class=\"page-break\"></div>">>

\* C11: with the TOC switch off the converter returns an empty TOC fragment
\* for every markdown text, and the assembled document holds no TOC block:
\* neither the table-of-contents container nor the page-break marker.
C11_NoTocWhenDisabled ==
    (call # NoCall /\ call.a.toc = FALSE /\ res.success) =>
        /\ Fragments.toc = <<>>
        /\ ~Contains(Emitted, TocContainer)
        /\ ~Contains(Emitted, PageBreak)

C11_Witness ==
    /\ call # NoCall
    /\ call.op = "generate_pdf"
    /\ call.a.toc = FALSE
    /\ call.a.md = <<"#", "#", " ", "a">>
    /\ res.success
    /\ Contains(Emitted, <<"<h2>", "a", "</h2>">>)

\* C12 as stated: with a non-empty TOC fragment the assembled document
\* holds the TOC block exactly once, right after the opening body tag of
\* the skeleton, ending in the page-break marker and followed by the
\* original body content, for every body content, also one that contains
\* the text <body>.
C12_TocOnceAfterBody ==
    (call # NoCall /\ res.success /\ Fragments.toc # <<>>) =>
        LET block == TocSection(Fragments.toc)
            at == Find(Emitted, BodyOpen)
        IN  /\ Count(Emitted, block) = 1
            /\ Count(Emitted, PageBreak) = 1
            /\ EndsWith(block, PageBreak \o <<"\n">>)
            /\ StartsWith(SubSeq(Emitted, at, Len(Emitted)),
                          BodyOpen \o <<"\n">> \o block)

\* the skeleton up to its title element
SkeletonHead ==
    LET s == Skeleton(<<>>) IN SubSeq(s, 1, Find(s, TitleMarker) - 1)

StyleBlock(css_content) ==
    <<"<style>", "\n">> \o css_content \o <<"\n", "</style>", "\n">>

\* C13 as stated: the file preview_html writes holds the meta tags and the
\* <style> block with the materialized CSS exactly once each, in the head,
\* the style block directly before the </head> of the skeleton, for every
\* body content, also one that contains the text </head>; the call
\* returns the absolute output path and has created the parent directory.
C13_HeadInjectedOnce ==
    (call # NoCall /\ call.op = "preview_html" /\ res.success) =>
        LET tags == MetaTags(PreviewMetadata, trace.now)
            style == StyleBlock(_generate_css(tdir, call.a.style, call.a.theme).val)
        IN  /\ Count(Emitted, tags) = 1
            /\ Count(Emitted, style) = 1
            /\ StartsWith(Emitted,
                    SkeletonHead \o TitleElement(<<"Preview">>) \o <<"\n">>
                        \o tags \o style \o HeadClose \o <<"\n">> \o BodyOpen)
            /\ res.path = <<Resolve(call.a.path)>>
            /\ Parent(Resolve(call.a.path)) \in dirs

\* none of the three literal markers occurs in the document
Unmarked(doc) ==
    /\ ~Contains(doc, TitleMarker)
    /\ ~Contains(doc, HeadClose)
    /\ ~Contains(doc, BodyOpen)

\* C15: _add_metadata_to_html returns a document that holds none of the
\* markers <title>Document</title>, </head> and <body> unchanged, for every
\* metadata map and TOC fragment, so any number of applications gives what
\* one application gives.
C15_UnmarkedUnchanged ==
    (asmOut # <<>> /\ Unmarked(asmIn.doc)) => asmOut[1].doc = asmIn.doc

C15_Witness ==
    /\ asmOut # <<>>
    /\ asmOut[1].n = MaxApply
    /\ asmIn.doc = <<"<title>", "x", "</title>">>
    /\ asmIn.toc # <<>>
    /\ asmIn.metadata # EmptyDict
    /\ asmOut[1].doc = asmIn.doc

GeneratorOps == {"generate_pdf", "preview_html"}

\* the stage of the last call that failed, of the three the claim names
FailedStage ==
    IF call.a.fault = "markdown" THEN "markdown"
    ELSE IF CssMissing(call) THEN "css"
    ELSE IF call.a.fault = "engine" THEN "engine"
    ELSE "none"

\* the failure the stage itself met
OriginalFailure(stage) ==
    IF stage = "css" THEN StrOf(FileNotFound(CssPath(FallbackStyle)))
    ELSE StrOf(FaultExc(stage))

\* the description of the operation, which is all that describes a failing engine
OpPrefix(op) == IF op = "generate_pdf" THEN PdfFailPrefix ELSE HtmlFailPrefix

StagePrefix(stage) ==
    IF stage = "markdown" THEN MdFailPrefix
    ELSE IF stage = "css" THEN CssLoadPrefix
    ELSE <<>>

\* C14 as stated: a failure of markdown conversion, CSS loading or the
\* engine in generate_pdf / preview_html reaches the caller as an error
\* wrapped exactly once: its message carries the description of the failed
\* stage and its cause is the original failure.
C14_WrappedOnce ==
    (call # NoCall /\ call.op \in GeneratorOps /\ FailedStage # "none") =>
        /\ res.how = "raise"
        /\ Len(res.exc) = 2
        /\ Contains(res.exc[1], IF FailedStage = "engine" THEN OpPrefix(call.op)
                                 ELSE StagePrefix(FailedStage))
        /\ res.exc[2] = OriginalFailure(FailedStage)

\* C14 amended: the failure reaches the caller as one raised error whose
\* message is the operation's description, then the stage's description
\* (markdown, CSS), then the original message, and whose cause chain ends
\* at the original failure; an engine failure is wrapped once, a markdown
\* or CSS failure twice, by its stage and then by the operation, so that
\* the immediate cause is the stage's wrapper.
C14_WrappedPerLevel ==
    (call # NoCall /\ call.op \in GeneratorOps /\ FailedStage # "none") =>
        LET orig == OriginalFailure(FailedStage)
            staged == StagePrefix(FailedStage) \o orig
        IN  /\ res.how = "raise"
            /\ res.exc[1] = OpPrefix(call.op) \o staged
            /\ res.exc[Len(res.exc)] = orig
            /\ FailedStage = "engine" => res.exc = <<OpPrefix(call.op) \o orig, orig>>
            /\ FailedStage # "engine" =>
                   res.exc = <<OpPrefix(call.op) \o staged, staged, orig>>

C14_Witness ==
    /\ call # NoCall
    /\ call.op = "preview_html"
    /\ FailedStage = "css"
    /\ call.a.fault = "none"
    /\ res.how = "raise"
    /\ Len(res.exc) = 3

\* what the call c gives and writes when nothing is at its output path:
\* the same call at the same time on an empty output directory
FreshRun(c, now) ==
    LET m == IF c.metaArg = "cmap" THEN <<c.before>> ELSE <<>>
        r == CASE c.op = "beautify" -> beautify(tdir, EmptyDict, {}, c.a, m, now)
               [] c.op = "agent_preview_html" ->
                      agent_preview_html(tdir, EmptyDict, {}, c.a, now)
               [] c.op = "markdown_to_pdf" ->
                      markdown_to_pdf(tdir, EmptyDict, {}, c.a, m, now)
               [] c.op = "generate_pdf" ->
                      [res |-> <<>>] @@ generate_pdf(tdir, EmptyDict, {}, c.a, m, now)
               [] c.op = "preview_html" ->
                      [res |-> <<>>] @@ gen_preview_html(tdir, EmptyDict, {}, c.a, now)
    IN  [res |-> IF c.op \in GeneratorOps THEN Direct(r.out) ELSE r.res,
         files |-> r.files]

\* C16: an emit to a path where a file exists overwrites it silently: the
\* call gives what it gives on a free path (no error because of the file),
\* and after a successful emit the file is exactly the newly assembled
\* document, nothing of the previous content left, so that after any
\* sequence of successful emits the file holds the output of the last.
C16_SilentOverwrite ==
    [][call' # NoCall =>
          LET fresh == FreshRun(call', trace'.now)
              path == Resolve(call'.a.path)
          IN  /\ res' = fresh.res
              /\ res'.success =>
                     /\ res'.path = <<path>>
                     /\ files'[path] = fresh.files[path]]_vars

C16_Witness ==
    /\ ncalls = MaxEmits
    /\ call # NoCall
    /\ call.op = "preview_html"
    /\ call.a.md = <<"#", " ", "B">>
    /\ res.success
    /\ files[res.path[1]].kind = "html"
    /\ ~Contains(files[res.path[1]].html, <<"<h1>", "A", "</h1>">>)

Finished(p) == race.procs[p].pc \in {"done", "raised"}
Succeeded(p) == race.procs[p].pc = "done" /\ race.procs[p].out.ok

\* what the invocation of p gives when it runs alone
Alone(p) ==
    gen_preview_html(tdir, EmptyDict, {}, race.procs[p].a, race.procs[p].now)

\* the invocation that started last
StartedLast == race.order[Len(race.order)]

\* C17: two concurrent invocations on one output path are not serialized
\* and see no conflict: each ends as it ends when run alone, so neither
\* raises because of the other and two that succeed return the same
\* absolute path; the file then holds what their writes left in the order
\* they happened, which need not be the whole output of the invocation
\* that started last.
C17_NoConflictDetected ==
    race # <<>> =>
        /\ \A p \in Procs : Finished(p) => race.procs[p].out = Alone(p).out
        /\ (\A p \in Procs : Succeeded(p)) =>
               LET path == race.procs[1].out.val
                   t1 == race.procs[1].text
                   t2 == race.procs[2].text
               IN  /\ race.procs[2].out.val = path
                   /\ files[path].html \in
                          {t1, t2, WriteAtStart(t1, t2), WriteAtStart(t2, t1)}

C17_Witness ==
    /\ race # <<>>
    /\ \A p \in Procs : Succeeded(p)
    /\ LET file == files[race.procs[1].out.val].html IN
       /\ file # race.procs[StartedLast].text
       /\ \A p \in Procs : file # race.procs[p].text
       /\ EndsWith(file, <<"</body>", "\n", "</html>", "y>", "\n", "</html>">>)

\* the planned questions and the notes of the run
Planned == graph.state["questions"]
Notes == graph.state["research_notes"]

\* some planned question's id is the question_id of no research note
SomePending(questions, notes) ==
    \E i \in DOMAIN questions :
        \A j \in DOMAIN notes : notes[j]["question_id"] # questions[i]["id"]

\* C18: after each research step the route is research exactly when some
\* planned question's id is the question_id of no research note, and
\* synthesize otherwise; synthesize_node never runs while a planned
\* question is pending.
C18_RouteIffPending ==
    graph # <<>> =>
        /\ graph.last = "research" =>
               (graph.node = "research" <=> SomePending(Planned, Notes))
        /\ graph.last = "research" => graph.node \in {"research", "synthesize"}
        /\ (graph.node = "synthesize" \/ graph.last = "synthesize") =>
               ~SomePending(Planned, Notes)

C18_Witness ==
    /\ graph # <<>>
    /\ graph.last = "research"
    /\ graph.node = "research"
    /\ Len(Planned) = MaxQuestions
    /\ Len(Notes) = max_per_call

\* the number of planned questions still without a note
PendingCount(g) ==
    Cardinality({i \in DOMAIN g.state["questions"] :
                    \A j \in DOMAIN g.state["research_notes"] :
                        g.state["research_notes"][j]["question_id"]
                            # g.state["questions"][i]["id"]})

\* C19 as stated: for every plan, the empty one too, a run started at
\* plan_questions reaches synthesize and then END when every agent call
\* returns; every research step that finds pending questions leaves fewer
\* of them.
C19_RunReachesEnd ==
    /\ [][(graph # <<>> /\ graph.node = "research" /\ PendingCount(graph) > 0
             /\ graph'.steps = graph.steps + 1)
           => PendingCount(graph') < PendingCount(graph)]_vars
    /\ <>(graph # <<>> /\ graph.node = "END" /\ graph.last = "synthesize")

IsPrefix(s, t) == Len(s) <= Len(t) /\ SubSeq(t, 1, Len(s)) = s

\* the question ids of the notes, in the order of the notes
NoteIds(notes) == [j \in DOMAIN notes |-> notes[j]["question_id"]]
PlanIds(questions) == [i \in DOMAIN questions |-> questions[i]["id"]]

\* C20: throughout a run research_notes only grows at its end and holds at
\* most one note per planned question id; when synthesize_node runs it
\* holds exactly one note for each planned question, in plan order: no
\* question is researched in two research steps, none is skipped.
C20_OneNotePerQuestion ==
    [][graph' # <<>> =>
          LET notes == graph'.state["research_notes"]
              ids == NoteIds(notes)
          IN  /\ IsPrefix(graph.state["research_notes"], notes)
              /\ \A j, k \in DOMAIN ids : ids[j] = ids[k] => j = k
              /\ \A j \in DOMAIN ids :
                     \E i \in DOMAIN graph'.state["questions"] :
                         graph'.state["questions"][i]["id"] = ids[j]
              /\ graph'.last = "synthesize" =>
                     ids = PlanIds(graph'.state["questions"])]_vars

C20_Witness ==
    /\ graph # <<>>
    /\ graph.last = "synthesize"
    /\ Len(Planned) = MaxQuestions
    /\ Planned[1]["question"] = Planned[3]["question"]
    /\ NoteIds(Notes) = [i \in 1..MaxQuestions |-> QId(i)]

\* the ids of the planned questions without a note, in plan order
PendingIds(g) ==
    LET ids == PlanIds(g.state["questions"])
        done == {g.state["research_notes"][j]["question_id"] :
                    j \in DOMAIN g.state["research_notes"]}
        open(id) == id \notin done
    IN  SelectSeq(ids, open)

Min(a, b) == IF a < b THEN a ELSE b

\* ceil(n / 3), and at least one step
StepsFor(n) == IF n = 0 THEN 1 ELSE (n + max_per_call - 1) \div max_per_call

\* C21: a research_node execution with p pending questions appends notes
\* for exactly the first min(3, p) of them, in plan order, and with p = 0
\* it changes no field of the state; a plan of n questions takes exactly
\* max(1, ceil(n/3)) research steps before synthesize.
C21_ThreePerStep ==
    [][(graph # <<>> /\ graph' # <<>>) =>
          /\ (graph.node = "research" /\ graph'.steps = graph.steps + 1) =>
                 LET p == Len(PendingIds(graph))
                     before == graph.state["research_notes"]
                     after == graph'.state["research_notes"]
                 IN  /\ Len(after) = Len(before) + Min(3, p)
                     /\ IsPrefix(before, after)
                     /\ NoteIds(SubSeq(after, Len(before) + 1, Len(after)))
                            = SubSeq(PendingIds(graph), 1, Min(3, p))
                     /\ p = 0 => graph'.state = graph.state
                     /\ DOMAIN graph'.state = DOMAIN graph.state
          /\ graph'.node = "synthesize" =>
                 graph'.steps = StepsFor(Len(graph'.state["questions"]))]_vars

C21_Witness ==
    /\ graph # <<>>
    /\ graph.node = "synthesize"
    /\ graph.steps = 2
    /\ Len(Planned) = MaxQuestions
    /\ NoteIds(Notes) = PlanIds(Planned)

\* C22: for a question researched the agent is invoked once, and once more
\* with the refined question exactly when the first summary is shorter
\* than 200 characters, never more than twice; the note kept is the
\* retry's only when its summary is strictly longer than the first one's,
\* else the first note, and it is stored under the id of the original
\* question.
C22_RetryOnlyIfLonger ==
    (study # <<>> /\ study.out # <<>>) =>
        LET q == study.q
            first == study.answer.first
            retry == study.answer.retry
            asked == study.out[1].asked
            kept == study.out[1].kept
            refined == q["question"] \o RefineSuffix
        IN  /\ Len(asked) \in {1, 2}
            /\ asked[1]["question"] = q["question"]
            /\ Len(asked) = 2 <=> Len(first) < 200
            /\ Len(asked) = 2 => asked[2]["question"] = refined
            /\ (Len(asked) = 2 /\ Len(retry) > Len(first)) =>
                   (kept["summary"] = retry /\ kept["question"] = refined)
            /\ ~(Len(asked) = 2 /\ Len(retry) > Len(first)) =>
                   (kept["summary"] = first /\ kept["question"] = q["question"])
            /\ kept["question_id"] = q["id"]
            /\ kept["category"] = q["category"]

C22_Witness ==
    /\ study # <<>>
    /\ study.out # <<>>
    /\ Len(study.answer.first) = ShortSummary - 1
    /\ Len(study.answer.retry) = ShortSummary - 1
    /\ study.q["id"] = QId(2)
    /\ Len(study.out[1].asked) = 2
    /\ study.out[1].kept["question"] = study.q["question"]
    /\ study.out[1].kept["question_id"] = QId(2)

\* C23: when markdown conversion or CSS loading fails in generate_pdf or
\* preview_html, called directly or by an agent operation, the filesystem
\* is as before the call: the parent directory of the output path is not
\* created, and no file at the output path is created, truncated or
\* overwritten.
C23_EarlyFailureWritesNothing ==
    [][(/\ call' # NoCall
        /\ call'.a.fault # "analyzer"
        /\ (call'.a.fault = "markdown" \/ CssMissing(call'))) =>
           /\ res'.success = FALSE
           /\ dirs' = dirs
           /\ DOMAIN files' = DOMAIN files
           /\ \A path \in DOMAIN files : files'[path] = files[path]]_vars

C23_Witness ==
    /\ call # NoCall
    /\ call.op = "preview_html"
    /\ call.a.fault = "markdown"
    /\ ~CssMissing(call)
    /\ res.how = "raise"
    /\ Resolve(call.a.path) \in DOMAIN files
    /\ files[Resolve(call.a.path)].html # <<>>
    /\ Parent(Resolve(call.a.path)) \in dirs

====
